---------------------------- MODULE Spec2Model ----------------------------
(***************************************************************************)
(* A model of the Mandelbrot renderer: the palette package (ColorMap,      *)
(* Get, Normalize, Interpolate) and the row-parallel render of main.go.    *)
(*                                                                         *)
(* float64 values are modelled exactly, as fractions n/d in lowest terms;  *)
(* d = 0 stands for the IEEE values a division by zero produces (0/0 is    *)
(* NaN, +-1/0 is +-Inf).  Rounding error of float64 is outside the model.  *)
(***************************************************************************)
EXTENDS Integers, Sequences, FiniteSets, TLC

(***************************************************************************)
(* Bounds of the model.                                                    *)
(***************************************************************************)
MaxStops == 3
MaxHeight == 2
MaxProcs == 2
MaxWrites == 1

(***************************************************************************)
(* float64 arithmetic.                                                     *)
(***************************************************************************)
Abs(i) == IF i < 0 THEN -i ELSE i

Sign(i) == IF i < 0 THEN -1 ELSE IF i > 0 THEN 1 ELSE 0

RECURSIVE GCD(_, _)
GCD(a, b) == IF b = 0 THEN a ELSE GCD(b, a % b)

Rat(num, den) ==
    IF den = 0
    THEN [n |-> Sign(num), d |-> 0]
    ELSE LET g == GCD(Abs(num), Abs(den))
             s == IF den < 0 THEN -1 ELSE 1
         IN  [n |-> (s * num) \div g, d |-> (s * den) \div g]

FromInt(i) == [n |-> i, d |-> 1]

Zero == FromInt(0)

One == FromInt(1)

NaN == [n |-> 0, d |-> 0]

IsNaN(a) == a.n = 0 /\ a.d = 0

\* a < b, false when either side is NaN.
Lt(a, b) ==
    /\ ~IsNaN(a)
    /\ ~IsNaN(b)
    /\ IF a.d = 0 /\ b.d = 0 THEN a.n < b.n ELSE a.n * b.d < b.n * a.d

\* a <= b, false when either side is NaN.
Le(a, b) ==
    /\ ~IsNaN(a)
    /\ ~IsNaN(b)
    /\ IF a.d = 0 /\ b.d = 0 THEN a.n <= b.n ELSE a.n * b.d <= b.n * a.d

\* a == b, false when either side is NaN.
Eq(a, b) == ~IsNaN(a) /\ ~IsNaN(b) /\ a = b

Add(a, b) ==
    IF IsNaN(a) \/ IsNaN(b) THEN NaN
    ELSE IF a.d = 0 /\ b.d = 0 THEN (IF a.n = b.n THEN a ELSE NaN)
    ELSE IF a.d = 0 THEN a
    ELSE IF b.d = 0 THEN b
    ELSE LET g == GCD(a.d, b.d)
         IN  Rat(a.n * (b.d \div g) + b.n * (a.d \div g), (a.d \div g) * b.d)

Neg(a) == [n |-> -a.n, d |-> a.d]

Sub(a, b) == Add(a, Neg(b))

Mul(a, b) == IF IsNaN(a) \/ IsNaN(b) THEN NaN ELSE Rat(a.n * b.n, a.d * b.d)

Div(a, b) ==
    IF IsNaN(a) \/ IsNaN(b) THEN NaN
    ELSE IF a.d = 0 /\ b.d = 0 THEN NaN
    ELSE Rat(a.n * b.d, a.d * b.n)

(***************************************************************************)
(* palette.go: colours and colour stops.                                   *)
(***************************************************************************)
RGBA(r, g, b, a) == [R |-> r, G |-> g, B |-> b, A |-> a]

Stop(step, color) == [Step |-> step, Color |-> color]

\* The palettes of ColorPalettes, in order.
Registered ==
    << [Keyword |-> "NebulaSpectre", Colors |-> <<
          Stop(Rat(0, 1),    RGBA(9, 4, 32, 255)),
          Stop(Rat(15, 100), RGBA(58, 15, 115, 255)),
          Stop(Rat(35, 100), RGBA(141, 26, 168, 255)),
          Stop(Rat(55, 100), RGBA(231, 54, 127, 255)),
          Stop(Rat(75, 100), RGBA(59, 214, 194, 255)),
          Stop(Rat(1, 1),    RGBA(240, 255, 255, 255)) >>],
       [Keyword |-> "MonochromeSlate", Colors |-> <<
          Stop(Rat(0, 1), RGBA(0, 0, 0, 255)),
          Stop(Rat(1, 2), RGBA(112, 112, 112, 255)),
          Stop(Rat(1, 1), RGBA(255, 255, 255, 255)) >>],
       [Keyword |-> "MetallicChrome", Colors |-> <<
          Stop(Rat(0, 1),    RGBA(6, 11, 20, 255)),
          Stop(Rat(2, 10),   RGBA(58, 63, 69, 255)),
          Stop(Rat(45, 100), RGBA(158, 174, 180, 255)),
          Stop(Rat(7, 10),   RGBA(231, 216, 176, 255)),
          Stop(Rat(1, 1),    RGBA(255, 255, 255, 255)) >>],
       [Keyword |-> "ThermalHeat", Colors |-> <<
          Stop(Rat(0, 1),  RGBA(0, 0, 0, 255)),
          Stop(Rat(1, 4),  RGBA(112, 0, 0, 255)),
          Stop(Rat(1, 2),  RGBA(255, 64, 0, 255)),
          Stop(Rat(3, 4),  RGBA(255, 208, 0, 255)),
          Stop(Rat(1, 1),  RGBA(255, 255, 255, 255)) >>],
       [Keyword |-> "AuroraArc", Colors |-> <<
          Stop(Rat(0, 1),    RGBA(1, 19, 31, 255)),
          Stop(Rat(2, 10),   RGBA(3, 107, 95, 255)),
          Stop(Rat(45, 100), RGBA(84, 230, 178, 255)),
          Stop(Rat(7, 10),   RGBA(149, 67, 214, 255)),
          Stop(Rat(1, 1),    RGBA(248, 249, 255, 255)) >>] >>

\* A nil *ColorMap.
Nil == [Keyword |-> "", Colors |-> 0]

(***************************************************************************)
(* sort.Slice(cm.Colors, less) with less(i, j) = Colors[i].Step <          *)
(* Colors[j].Step.  For slices of at most 12 elements sort.Slice is the    *)
(* insertion sort below (stable); every gradient of the model is shorter.  *)
(***************************************************************************)
Swap(S, i, j) == [S EXCEPT ![i] = S[j], ![j] = S[i]]

RECURSIVE SiftDown(_, _)
SiftDown(S, j) ==
    IF j > 1 /\ Lt(S[j].Step, S[j - 1].Step)
    THEN SiftDown(Swap(S, j, j - 1), j - 1)
    ELSE S

RECURSIVE InsertionSort(_, _)
InsertionSort(S, i) ==
    IF i > Len(S) THEN S ELSE InsertionSort(SiftDown(S, i), i + 1)

SortByStep(S) == InsertionSort(S, 2)

(***************************************************************************)
(* Normalize, on the contents of the slice cm.Colors.  Indices are 1-based *)
(* here and 0-based in the source.                                         *)
(***************************************************************************)
AllSpecified(S) == \A i \in 1..Len(S) : ~Eq(S[i].Step, Zero)

ClampStep(s) == IF Lt(s, Zero) THEN Zero ELSE IF Lt(One, s) THEN One ELSE s

ClampAll(S) == [i \in 1..Len(S) |-> [S[i] EXCEPT !.Step = ClampStep(S[i].Step)]]

\* The entries of fixed: the stops with Step > 0, their Step clamped.
FixedOf(S) ==
    LET F[i \in 0..Len(S)] ==
          IF i = 0 THEN << >>
          ELSE IF Lt(Zero, S[i].Step)
               THEN Append(F[i - 1], [idx |-> i, step |-> ClampStep(S[i].Step)])
               ELSE F[i - 1]
    IN  F[Len(S)]

EvenlySpaced(S) ==
    [i \in 1..Len(S) |->
        [S[i] EXCEPT !.Step = Div(FromInt(i - 1), FromInt(Len(S) - 1))]]

\* One pass of the inner loop: the stops ia..ib between the anchors a and b.
FillSpan(S, a, b) ==
    LET stepspan == Sub(b.step, a.step)
        spanCount == FromInt(b.idx - a.idx)
    IN  [i \in 1..Len(S) |->
            IF i < a.idx \/ i > b.idx THEN S[i]
            ELSE IF i = a.idx THEN [S[i] EXCEPT !.Step = a.step]
            ELSE [S[i] EXCEPT !.Step =
                    Add(a.step, Mul(Div(FromInt(i - a.idx), spanCount), stepspan))]]

RECURSIVE FillBetween(_, _, _)
FillBetween(S, fixed, k) ==
    IF k > Len(fixed) - 1 THEN S
    ELSE FillBetween(FillSpan(S, fixed[k], fixed[k + 1]), fixed, k + 1)

\* Normalize without its final sort.
FinalSort_Omitted(S) == S

\* The final step of the anchored path: sort.Slice by Step.
FinalSort(S) == SortByStep(S)

FillAnchored(S, fixed) ==
    LET n  == Len(S)
        f1 == IF fixed[1].idx # 1
              THEN << [idx |-> 1, step |-> Zero] >> \o fixed ELSE fixed
        S1 == IF fixed[1].idx # 1 THEN [S EXCEPT ![1].Step = Zero] ELSE S
        f2 == IF f1[Len(f1)].idx # n
              THEN Append(f1, [idx |-> n, step |-> One]) ELSE f1
        S2 == IF f1[Len(f1)].idx # n THEN [S1 EXCEPT ![n].Step = One] ELSE S1
    IN  FinalSort(FillBetween(S2, f2, 1))

NormalizeStops(S) ==
    IF Len(S) = 0 THEN S
    ELSE IF AllSpecified(S) THEN ClampAll(SortByStep(S))
    ELSE IF Len(FixedOf(S)) = 0 THEN EvenlySpaced(S)
    ELSE FillAnchored(S, FixedOf(S))

(***************************************************************************)
(* Interpolate.  nanByte is what uint8(NaN) yields: the conversion of a    *)
(* float that the type cannot hold is implementation-dependent in Go.      *)
(***************************************************************************)
\* color.RGBA.RGBA() widens each channel to 16 bits; toRGBA shifts it back.
ToRGBA(c) ==
    LET narrow(v) == ((v * 257) \div 256) % 256
    IN  RGBA(narrow(c.R), narrow(c.G), narrow(c.B), narrow(c.A))

Clamp(v, lo, hi) == IF Lt(v, lo) THEN lo ELSE IF Lt(hi, v) THEN hi ELSE v

Uint8(v, nanByte) == IF v.d = 0 THEN nanByte ELSE (v.n \div v.d) % 256

LerpRGBA(a, b, t, nanByte) ==
    IF Le(t, Zero) THEN a
    ELSE IF Le(One, t) THEN b
    ELSE LET ch(x, y) ==
               Uint8(Clamp(Add(Mul(Sub(One, t), FromInt(x)), Mul(t, FromInt(y))),
                           Zero, FromInt(255)), nanByte)
         IN  RGBA(ch(a.R, b.R), ch(a.G, b.G), ch(a.B, b.B), ch(a.A, b.A))

\* cm.Interpolate(t) where S is the contents of cm.Colors (<< >> for a nil cm).
Interpolate(S, t, nanByte) ==
    IF Len(S) = 0 THEN RGBA(0, 0, 0, 255)
    ELSE IF Le(t, Zero) THEN ToRGBA(S[1].Color)
    ELSE IF Le(One, t) THEN ToRGBA(S[Len(S)].Color)
    ELSE LET hits == {i \in 1..(Len(S) - 1) :
                        Le(S[i].Step, t) /\ Le(t, S[i + 1].Step)}
         IN  IF hits = {} THEN ToRGBA(S[Len(S)].Color)
             ELSE LET i == CHOOSE j \in hits : \A k \in hits : j <= k
                      segT == Div(Sub(t, S[i].Step), Sub(S[i + 1].Step, S[i].Step))
                  IN  LerpRGBA(ToRGBA(S[i].Color), ToRGBA(S[i + 1].Color),
                               segT, nanByte)

(***************************************************************************)
(* main.go: the escape-time evaluation of one pixel.                       *)
(***************************************************************************)
\* z*z + c on complex128, z = (re, im).
Step2(z, c) ==
    [re |-> Add(Sub(Mul(z.re, z.re), Mul(z.im, z.im)), c.re),
     im |-> Add(Add(Mul(z.re, z.im), Mul(z.im, z.re)), c.im)]

Norm2(z) == Add(Mul(z.re, z.re), Mul(z.im, z.im))

RECURSIVE IterateFrom(_, _, _, _)
IterateFrom(z, c, n, maxIter) ==
    IF n >= maxIter THEN [n |-> maxIter, z |-> z]
    ELSE LET z1 == Step2(z, c)
         IN  IF Lt(FromInt(4), Norm2(z1)) THEN [n |-> n, z |-> z1]
             ELSE IterateFrom(z1, c, n + 1, maxIter)

mandelbrotIterations(c, maxIter) ==
    IterateFrom([re |-> Zero, im |-> Zero], c, 0, maxIter)

\* floor(log2(q)) for a finite q > 0.
RECURSIVE Log2Floor(_)
Log2Floor(q) ==
    IF Le(FromInt(2), q) THEN 1 + Log2Floor(Div(q, FromInt(2)))
    ELSE IF Lt(q, One) THEN Log2Floor(Mul(q, FromInt(2))) - 1
    ELSE 0

(***************************************************************************)
(* nu = n + 1 - log(log|z|)/log(2).  math.Log and math.Hypot have no exact *)
(* counterpart here: log2 is taken to whole numbers (its floor), with      *)
(* log|z| = (ln 2 / 2) * log2(|z|^2) and ln 2 = 693/1000.  The domain      *)
(* cases are those of the source: |z| <= 0 is replaced by 1e-16, whose     *)
(* logarithm is negative, and the logarithm of a negative number is NaN.   *)
(***************************************************************************)
SmoothNu(iter, z) ==
    LET mag2 == Norm2(z)
    IN  IF IsNaN(mag2) \/ Le(mag2, Zero) THEN NaN
        ELSE IF mag2.d = 0 THEN Rat(-1, 0)
        ELSE LET lnMag == Rat(693 * Log2Floor(mag2), 2000)
             IN  IF Lt(lnMag, Zero) THEN NaN
                 ELSE IF Eq(lnMag, Zero) THEN Rat(1, 0)
                 ELSE FromInt(iter + 1 - Log2Floor(lnMag))

\* The position t on the palette of an escape result (iter, z).
PaletteT(iter, z, iters, smooth) ==
    IF iter >= iters THEN Zero
    ELSE IF smooth
         THEN LET nu0 == SmoothNu(iter, z)
                  nu  == IF Lt(nu0, Zero) THEN FromInt(iter) ELSE nu0
              IN  Div(nu, FromInt(iters))
         ELSE Div(FromInt(iter), FromInt(iters))

\* The colour computeRow gives pixel (x, y) under flags f and the palette
\* contents S.
PixelColor(x, y, f, S, nanByte) ==
    LET cre == Add(FromInt(f.xmin),
                   Mul(Div(FromInt(x), FromInt(f.width)), FromInt(f.xmax - f.xmin)))
        cim == Add(FromInt(f.ymin),
                   Mul(Div(FromInt(y), FromInt(f.height)), FromInt(f.ymax - f.ymin)))
        r   == mandelbrotIterations([re |-> cre, im |-> cim], f.iters)
    IN  Interpolate(S, PaletteT(r.n, r.z, f.iters, f.smooth), nanByte)

(***************************************************************************)
(* The inputs of the model.                                                *)
(***************************************************************************)
Widths == {-1, 0, 1, 2}

Heights == -1..MaxHeight

IterCounts == {-1, 0, 2}

ProcCounts == -1..MaxProcs

\* <<xmin, xmax, ymin, ymax>>: a proper viewport and a degenerate one
\* (xmin = xmax, ymin > ymax).
Viewports == { <<-2, 2, -2, 2>>, <<1, 1, 1, -1>> }

\* Two registered palette names and one that is not registered.
PaletteNames == {"NebulaSpectre", "MonochromeSlate", "Inferno"}

Flags ==
    { [width |-> wd, height |-> ht, xmin |-> v[1], xmax |-> v[2], ymin |-> v[3],
       ymax |-> v[4], iters |-> it, concurrency |-> pr, smooth |-> sm, pal |-> nm] :
      wd \in Widths, ht \in Heights, v \in Viewports, it \in IterCounts,
      pr \in ProcCounts, sm \in BOOLEAN, nm \in PaletteNames }

\* Step values a caller may put into a gradient: unspecified (0), negative,
\* inside (0,1), the end 1 and above 1.
StepValues == {Rat(-1, 1), Zero, Rat(1, 4), Rat(1, 2), One, Rat(2, 1)}

\* The positions t Interpolate is asked for.
TValues ==
    {Rat(-1, 1), Zero, Rat(1, 8), Rat(1, 4), Rat(1, 2), Rat(3, 4), One, Rat(2, 1)}

\* The outcomes of uint8(NaN).
NaNBytes == {0, 255}

\* Gradients of up to MaxStops stops; stop i carries the i-th colour of
\* NebulaSpectre, so that a reordering of the stops is visible.
Gradients ==
    UNION { { [i \in 1..n |-> Stop(steps[i], Registered[1].Colors[i].Color)] :
              steps \in [1..n -> StepValues] } : n \in 0..MaxStops }

Workers == 1..MaxProcs

(***************************************************************************)
(* The state.                                                              *)
(*   ColorPalettes  the registry: each entry's Colors is the backing array *)
(*                  of its slice (an index into arrays)                    *)
(*   arrays         the backing arrays of the []Color slices               *)
(*   cmap           the *ColorMap the caller holds (Nil: none)             *)
(*   flags, pc      main's parsed flags and position                       *)
(*   w, y           main's loop variables w (spawn) and y (producer)       *)
(*   rows, closed   the channel rows, its buffer and whether it is closed  *)
(*   wg             the WaitGroup counter                                  *)
(*   worker         each worker goroutine's position and loop variables    *)
(*   img            the pixels of img                                      *)
(* and, recording what happened:                                           *)
(*   template       the contents of the registered palettes at start       *)
(*   pre, normRun   the contents of cmap.Colors before the latest          *)
(*                  Normalize, and how many Normalize calls ran on it in a *)
(*                  row since the caller last wrote to it                  *)
(*   writes         the number of writes the caller made to cmap's stops   *)
(*   result         the Interpolate call, if that was the latest operation *)
(*   received       per row, the workers that received it, in order        *)
(*   written        per pixel, the workers that wrote it, in order         *)
(***************************************************************************)
VARIABLES ColorPalettes, arrays, cmap, flags, pc, w, y, rows, closed, wg,
          worker, img, template, pre, normRun, writes, result, received,
          written

paletteVars ==
    <<ColorPalettes, arrays, cmap, template, pre, normRun, writes, result>>

renderVars == <<flags, pc, w, y, rows, closed, wg, worker, img, received, written>>

vars == <<ColorPalettes, arrays, cmap, flags, pc, w, y, rows, closed, wg,
          worker, img, template, pre, normRun, writes, result, received,
          written>>

\* The contents of cm.Colors (empty for a nil cm).
ColorsOf(cm) == IF cm = Nil THEN << >> ELSE arrays[cm.Colors]

NoResult == [called |-> FALSE]

(***************************************************************************)
(* palette.Get and palette.Normalize as the caller sees them.              *)
(***************************************************************************)
\* The index of the first registered palette named keyword, 0 if none.
Lookup(keyword) ==
    LET hits == {i \in 1..Len(ColorPalettes) : ColorPalettes[i].Keyword = keyword}
    IN  IF hits = {} THEN 0 ELSE CHOOSE i \in hits : \A j \in hits : i <= j

\* cpy := ColorPalettes[i]: the struct is copied, and with it the slice
\* header of Colors, which still points at the registered backing array.
CopyOf(entry) == [Keyword |-> entry.Keyword, Colors |-> entry.Colors]

\* Normalize(cm) for a non-nil cm.
NormalizeCall(cm) ==
    /\ pre' = arrays[cm.Colors]
    /\ arrays' = [arrays EXCEPT ![cm.Colors] = NormalizeStops(arrays[cm.Colors])]
    /\ normRun' = IF normRun < 2 THEN normRun + 1 ELSE 2

\* cmap = palette.Get(keyword)
GetCall(keyword) ==
    LET i == Lookup(keyword)
    IN  IF i = 0
        THEN /\ cmap' = Nil
             /\ normRun' = 0
             /\ UNCHANGED <<arrays, pre>>
        ELSE /\ cmap' = CopyOf(ColorPalettes[i])
             /\ pre' = arrays[ColorPalettes[i].Colors]
             /\ arrays' = [arrays EXCEPT ![ColorPalettes[i].Colors] =
                              NormalizeStops(arrays[ColorPalettes[i].Colors])]
             /\ normRun' = 1

(***************************************************************************)
(* A caller of the palette package: Get, Normalize, a write to a stop of   *)
(* the ColorMap Get returned, Interpolate.  Interpolate changes nothing,   *)
(* so the caller's run is followed up to its first Interpolate call.       *)
(***************************************************************************)
CallerGet(keyword) ==
    /\ ~result.called
    /\ GetCall(keyword)
    /\ result' = NoResult
    /\ UNCHANGED <<ColorPalettes, template, writes>>
    /\ UNCHANGED renderVars

CallerNormalize ==
    /\ ~result.called
    /\ IF cmap = Nil
       THEN UNCHANGED <<arrays, pre, normRun>>
       ELSE NormalizeCall(cmap)
    /\ result' = NoResult
    /\ UNCHANGED <<ColorPalettes, cmap, template, writes>>
    /\ UNCHANGED renderVars

\* cmap.Colors[i].Step = s
CallerWrite(i, s) ==
    /\ ~result.called
    /\ cmap # Nil
    /\ writes < MaxWrites
    /\ i \in 1..Len(arrays[cmap.Colors])
    /\ arrays' = [arrays EXCEPT ![cmap.Colors][i].Step = s]
    /\ normRun' = 0
    /\ writes' = writes + 1
    /\ result' = NoResult
    /\ UNCHANGED <<ColorPalettes, cmap, template, pre>>
    /\ UNCHANGED renderVars

\* cmap.Interpolate(t)
CallerInterpolate(t, nanByte) ==
    /\ ~result.called
    /\ result' = [called |-> TRUE, t |-> t, stops |-> ColorsOf(cmap),
                  normalized |-> normRun >= 1,
                  color |-> Interpolate(ColorsOf(cmap), t, nanByte)]
    /\ UNCHANGED <<ColorPalettes, arrays, cmap, template, pre, normRun, writes>>
    /\ UNCHANGED renderVars

IdleRender ==
    /\ flags = [width |-> 0, height |-> 0, xmin |-> 0, xmax |-> 0, ymin |-> 0,
                ymax |-> 0, iters |-> 0, concurrency |-> 0, smooth |-> FALSE,
                pal |-> ""]
    /\ pc = "idle"
    /\ w = 0
    /\ y = 0
    /\ rows = << >>
    /\ closed = FALSE
    /\ wg = 0
    /\ worker = [v \in Workers |-> [pc |-> "none", y |-> 0, x |-> 0]]
    /\ img = << >>
    /\ received = << >>
    /\ written = << >>

\* A registry holding one palette, "Custom", with any gradient.
PaletteInit ==
    /\ \E g \in Gradients :
          /\ arrays = << g >>
          /\ template = << g >>
    /\ ColorPalettes = << [Keyword |-> "Custom", Colors |-> 1] >>
    /\ cmap = Nil
    /\ pre = << >>
    /\ normRun = 0
    /\ writes = 0
    /\ result = NoResult
    /\ IdleRender

PaletteNext ==
    \/ \E k \in {"Custom", "Inferno"} : CallerGet(k)
    \/ CallerNormalize
    \/ \E i \in 1..MaxStops, s \in StepValues : CallerWrite(i, s)
    \/ \E t \in TValues, b \in NaNBytes : CallerInterpolate(t, b)

PaletteSpec == PaletteInit /\ [][PaletteNext]_vars

\* Normalize alone: Get normalizes the gradient once, the caller again, as
\* main does.
NormalizeNext ==
    \/ CallerGet("Custom")
    \/ CallerNormalize

NormalizeSpec == PaletteInit /\ [][NormalizeNext]_vars

(***************************************************************************)
(* main.go: the render.  runtime.GOMAXPROCS changes how many goroutines    *)
(* run at once, not what they may do: every interleaving of main and the   *)
(* workers is a behaviour here.                                            *)
(***************************************************************************)
\* The pixels of image.Rect(0, 0, width, height): image.Rect swaps the
\* coordinates of a corner that is not well-formed.
XRange(f) == IF f.width >= 0 THEN 0..(f.width - 1) ELSE f.width..(-1)

YRange(f) == IF f.height >= 0 THEN 0..(f.height - 1) ELSE f.height..(-1)

Pixels(f) == XRange(f) \X YRange(f)

Transparent == RGBA(0, 0, 0, 0)

NoWorker == [pc |-> "none", y |-> 0, x |-> 0]

\* The registry as the package initialises it.
RegistryInit ==
    /\ arrays = [i \in 1..Len(Registered) |-> Registered[i].Colors]
    /\ template = [i \in 1..Len(Registered) |-> Registered[i].Colors]
    /\ ColorPalettes =
          [i \in 1..Len(Registered) |->
              [Keyword |-> Registered[i].Keyword, Colors |-> i]]
    /\ cmap = Nil
    /\ pre = << >>
    /\ normRun = 0
    /\ writes = 0
    /\ result = NoResult

Init ==
    /\ RegistryInit
    /\ flags \in Flags
    /\ pc = "get"
    /\ w = 0
    /\ y = 0
    /\ rows = << >>
    /\ closed = FALSE
    /\ wg = 0
    /\ worker = [v \in Workers |-> NoWorker]
    /\ img = << >>
    /\ received = << >>
    /\ written = << >>

\* cmap := palette.Get(pal); a nil cmap ends the program with os.Exit(2).
MainGet ==
    /\ pc = "get"
    /\ GetCall(flags.pal)
    /\ pc' = IF Lookup(flags.pal) = 0 THEN "exit2" ELSE "normalize"
    /\ UNCHANGED <<ColorPalettes, template, writes, result>>
    /\ UNCHANGED <<flags, w, y, rows, closed, wg, worker, img, received, written>>

\* palette.Normalize(cmap)
MainNormalize ==
    /\ pc = "normalize"
    /\ NormalizeCall(cmap)
    /\ pc' = "alloc"
    /\ UNCHANGED <<ColorPalettes, cmap, template, writes, result>>
    /\ UNCHANGED <<flags, w, y, rows, closed, wg, worker, img, received, written>>

\* img := image.NewRGBA(...); rows := make(chan int, height), which panics
\* for a negative size.
MainAlloc ==
    /\ pc = "alloc"
    /\ img' = [p \in Pixels(flags) |-> Transparent]
    /\ written' = [p \in Pixels(flags) |-> << >>]
    /\ IF flags.height < 0
       THEN /\ pc' = "panic"
            /\ UNCHANGED received
       ELSE /\ pc' = "spawn"
            /\ received' = [r \in 0..(flags.height - 1) |-> << >>]
    /\ UNCHANGED paletteVars
    /\ UNCHANGED <<flags, w, y, rows, closed, wg, worker>>

\* One turn of the spawn loop: wg.Add(1); go func() {...}()
MainSpawn ==
    /\ pc = "spawn"
    /\ w < flags.concurrency
    /\ wg' = wg + 1
    /\ worker' = [worker EXCEPT ![w + 1] = [pc |-> "recv", y |-> 0, x |-> 0]]
    /\ w' = w + 1
    /\ UNCHANGED paletteVars
    /\ UNCHANGED <<flags, pc, y, rows, closed, img, received, written>>

\* The spawn loop ends.
MainSpawned ==
    /\ pc = "spawn"
    /\ w >= flags.concurrency
    /\ pc' = "send"
    /\ UNCHANGED paletteVars
    /\ UNCHANGED <<flags, w, y, rows, closed, wg, worker, img, received, written>>

\* rows <- y, which blocks while the buffer (of capacity height) is full.
MainSend ==
    /\ pc = "send"
    /\ y < flags.height
    /\ Len(rows) < flags.height
    /\ rows' = Append(rows, y)
    /\ y' = y + 1
    /\ UNCHANGED paletteVars
    /\ UNCHANGED <<flags, pc, w, closed, wg, worker, img, received, written>>

\* close(rows)
MainClose ==
    /\ pc = "send"
    /\ y >= flags.height
    /\ closed' = TRUE
    /\ pc' = "wait"
    /\ UNCHANGED paletteVars
    /\ UNCHANGED <<flags, w, y, rows, wg, worker, img, received, written>>

\* A main that does not wait for its workers.
MainWait_NoBarrier ==
    /\ pc = "wait"
    /\ pc' = "create"
    /\ UNCHANGED paletteVars
    /\ UNCHANGED <<flags, w, y, rows, closed, wg, worker, img, received, written>>

\* wg.Wait()
MainWait ==
    /\ pc = "wait"
    /\ wg = 0
    /\ pc' = "create"
    /\ UNCHANGED paletteVars
    /\ UNCHANGED <<flags, w, y, rows, closed, wg, worker, img, received, written>>

\* os.Create(outfile), which the file system may refuse: os.Exit(1).
MainCreate ==
    /\ pc = "create"
    /\ pc' \in {"encode", "exit1"}
    /\ UNCHANGED paletteVars
    /\ UNCHANGED <<flags, w, y, rows, closed, wg, worker, img, received, written>>

\* png.Encode(f, img), which refuses an image without pixels: os.Exit(1);
\* otherwise "Saved ..." is printed.
MainEncode ==
    /\ pc = "encode"
    /\ pc' = IF flags.width = 0 \/ flags.height = 0 THEN "exit1" ELSE "done"
    /\ UNCHANGED paletteVars
    /\ UNCHANGED <<flags, w, y, rows, closed, wg, worker, img, received, written>>

\* A receive that leaves the row in the channel.
WorkerRecv_NoDequeue(v) ==
    /\ worker[v].pc = "recv"
    /\ rows # << >>
    /\ Len(received[Head(rows)]) < 2
    /\ worker' = [worker EXCEPT ![v] = [pc |-> "row", y |-> Head(rows), x |-> 0]]
    /\ received' = [received EXCEPT ![Head(rows)] = Append(@, v)]
    /\ UNCHANGED paletteVars
    /\ UNCHANGED <<flags, pc, w, y, rows, closed, wg, img, written>>

\* for y := range rows: a worker receives the next row.
WorkerRecv(v) ==
    /\ worker[v].pc = "recv"
    /\ rows # << >>
    /\ worker' = [worker EXCEPT ![v] = [pc |-> "row", y |-> Head(rows), x |-> 0]]
    /\ rows' = Tail(rows)
    /\ received' = [received EXCEPT ![Head(rows)] = Append(@, v)]
    /\ UNCHANGED paletteVars
    /\ UNCHANGED <<flags, pc, w, y, closed, wg, img, written>>

\* The range loop ends on the closed, drained channel: defer wg.Done().
WorkerExit(v) ==
    /\ worker[v].pc = "recv"
    /\ rows = << >>
    /\ closed
    /\ worker' = [worker EXCEPT ![v].pc = "exited"]
    /\ wg' = wg - 1
    /\ UNCHANGED paletteVars
    /\ UNCHANGED <<flags, pc, w, y, rows, closed, img, received, written>>

\* Workers whose closures share one loop variable y: each computes the row
\* the variable holds now, the one received last by a worker still busy.
WorkerPixel_SharedY(v, nanByte) ==
    /\ worker[v].pc = "row"
    /\ worker[v].x < flags.width
    /\ LET busy == {u \in Workers : worker[u].pc = "row"}
           last == CHOOSE u \in busy : \A t \in busy : t <= u
           px   == <<worker[v].x, worker[v].y>>
           clr  == PixelColor(px[1], worker[last].y, flags, ColorsOf(cmap), nanByte)
       IN  IF px \in DOMAIN img
           THEN /\ img' = [img EXCEPT ![px] = clr]
                /\ written' = [written EXCEPT ![px] = Append(@, v)]
           ELSE UNCHANGED <<img, written>>
    /\ worker' = [worker EXCEPT ![v].x = @ + 1]
    /\ UNCHANGED paletteVars
    /\ UNCHANGED <<flags, pc, w, y, rows, closed, wg, received>>

\* One turn of computeRow's loop: the pixel (x, y) is computed and
\* img.SetRGBA(x, y, clr) stores it (SetRGBA ignores a point outside img).
WorkerPixel(v, nanByte) ==
    /\ worker[v].pc = "row"
    /\ worker[v].x < flags.width
    /\ LET px  == <<worker[v].x, worker[v].y>>
           clr == PixelColor(px[1], px[2], flags, ColorsOf(cmap), nanByte)
       IN  IF px \in DOMAIN img
           THEN /\ img' = [img EXCEPT ![px] = clr]
                /\ written' = [written EXCEPT ![px] = Append(@, v)]
           ELSE UNCHANGED <<img, written>>
    /\ worker' = [worker EXCEPT ![v].x = @ + 1]
    /\ UNCHANGED paletteVars
    /\ UNCHANGED <<flags, pc, w, y, rows, closed, wg, received>>

\* computeRow returns.
WorkerRowDone(v) ==
    /\ worker[v].pc = "row"
    /\ worker[v].x >= flags.width
    /\ worker' = [worker EXCEPT ![v].pc = "recv"]
    /\ UNCHANGED paletteVars
    /\ UNCHANGED <<flags, pc, w, y, rows, closed, wg, img, received, written>>

Next ==
    \/ MainGet
    \/ MainNormalize
    \/ MainAlloc
    \/ MainSpawn
    \/ MainSpawned
    \/ MainSend
    \/ MainClose
    \/ MainWait
    \/ MainCreate
    \/ MainEncode
    \/ \E v \in Workers : WorkerRecv(v)
    \/ \E v \in Workers : WorkerExit(v)
    \/ \E v \in Workers, b \in NaNBytes : WorkerPixel(v, b)
    \/ \E v \in Workers : WorkerRowDone(v)

Spec == Init /\ [][Next]_vars

(***************************************************************************)
(* Properties of the render (specification Spec).                          *)
(***************************************************************************)
\* main is past wg.Wait().
PastBarrier == pc \in {"create", "encode", "exit1", "done"}

\* The pixels computeRow's loops cover.
RowPixels(f) == (0..(f.width - 1)) \X (0..(f.height - 1))

\* C1: with at least one worker and a width of at least 1, every row is
\* received at most once and every pixel written at most once, by the worker
\* that received its row; no two workers are in the same row at once; and
\* once main is past the barrier every row has been received exactly once and
\* every pixel written exactly once.
C1_EachRowOnce ==
    (flags.concurrency >= 1 /\ flags.width >= 1) =>
        /\ \A r \in DOMAIN received : Len(received[r]) <= 1
        /\ \A p \in DOMAIN written :
              /\ Len(written[p]) <= 1
              /\ written[p] # << >> => written[p] = received[p[2]]
        /\ \A u, v \in Workers :
              (u # v /\ worker[u].pc = "row" /\ worker[v].pc = "row")
                 => worker[u].y # worker[v].y
        /\ PastBarrier =>
              /\ \A r \in 0..(flags.height - 1) : Len(received[r]) = 1
              /\ \A p \in RowPixels(flags) : Len(written[p]) = 1

\* Two workers each computed one of two rows of two pixels.
C1_Witness ==
    /\ pc = "done"
    /\ flags.concurrency = 2 /\ flags.height = 2 /\ flags.width = 2
    /\ received[0] # received[1]
    /\ \A p \in RowPixels(flags) : Len(written[p]) = 1

\* C2: with at least one worker, main is past the barrier only when every
\* row has been received and completely written and every worker has ended
\* (an ended worker takes no further step, so nothing is written afterwards).
C2_BarrierAfterAllRows ==
    (flags.concurrency >= 1 /\ PastBarrier) =>
        /\ rows = << >>
        /\ \A r \in 0..(flags.height - 1) : received[r] # << >>
        /\ \A p \in RowPixels(flags) : written[p] # << >>
        /\ \A v \in Workers : worker[v].pc \in {"none", "exited"}

\* main passes the barrier after two workers wrote the four pixels.
C2_Witness ==
    /\ pc = "create"
    /\ flags.concurrency = 2 /\ flags.height = 2 /\ flags.width = 2
    /\ \A p \in RowPixels(flags) : written[p] # << >>
    /\ \A v \in 1..2 : worker[v].pc = "exited"

\* The image the render parameters alone determine: flags.concurrency is not
\* read, nor anything a run of the workers leaves behind.
ReferenceImage(f) ==
    LET i == CHOOSE k \in 1..Len(Registered) : Registered[k].Keyword = f.pal
        S == NormalizeStops(NormalizeStops(Registered[i].Colors))
    IN  [p \in Pixels(f) |->
            IF p \in RowPixels(f) THEN PixelColor(p[1], p[2], f, S, 0)
            ELSE Transparent]

\* C3: with at least one worker, the image main goes on to encode is the one
\* the render parameters determine, whatever the number of workers and
\* whatever the order of their steps.
C3_ImageIndependentOfWorkers ==
    (flags.concurrency >= 1 /\ PastBarrier) => img = ReferenceImage(flags)

\* Two workers rendered an image of more than one colour, a row each.
C3_Witness ==
    /\ pc = "done"
    /\ flags.concurrency = 2 /\ flags.height = 2 /\ flags.width = 2
    /\ received[0] # received[1]
    /\ \E p, q \in RowPixels(flags) : img[p] # img[q]
    /\ img = ReferenceImage(flags)

InvalidFlags(f) ==
    \/ f.width <= 0
    \/ f.height <= 0
    \/ f.iters <= 0
    \/ f.xmin >= f.xmax
    \/ f.ymin >= f.ymax

\* C4: a worker count of 0 or less (the other flags being valid) is rejected
\* before the render, or the render runs with exactly one worker.
C4_NoRenderWithoutWorker ==
    (flags.concurrency <= 0 /\ ~InvalidFlags(flags)) =>
        \/ pc \in {"get", "normalize", "alloc", "spawn", "exit2", "panic"}
        \/ w = 1

\* C5: with a non-positive width, height or iteration count, or a degenerate
\* viewport (and a worker count of at least 1), no row is handed to a worker,
\* no success is reported and the program does not panic.
C5_InvalidFlagsRejected ==
    (InvalidFlags(flags) /\ flags.concurrency >= 1) =>
        /\ \A r \in DOMAIN received : received[r] = << >>
        /\ pc # "done"
        /\ pc # "panic"

(***************************************************************************)
(* Properties of Normalize (specification NormalizeSpec).                  *)
(***************************************************************************)
Sorted(S) == \A i \in 1..(Len(S) - 1) : Le(S[i].Step, S[i + 1].Step)

InUnit(S) == \A i \in 1..Len(S) : Le(Zero, S[i].Step) /\ Le(S[i].Step, One)

HasUnspecified(S) == \E i \in 1..Len(S) : Eq(S[i].Step, Zero)

\* C6, as stated: after Normalize of a gradient of at least two stops the
\* positions are sorted and within [0,1], and if any input position was 0
\* the first position is 0 and the last is 1.
C6_EndpointsForced ==
    (normRun >= 1 /\ Len(pre) >= 2) =>
        /\ Sorted(ColorsOf(cmap))
        /\ InUnit(ColorsOf(cmap))
        /\ HasUnspecified(pre) =>
              /\ Eq(ColorsOf(cmap)[1].Step, Zero)
              /\ Eq(ColorsOf(cmap)[Len(pre)].Step, One)

\* C6, amended: after Normalize of a gradient of at least two stops the
\* positions are sorted and within [0,1]; and if any input position was 0,
\* the first position is 0 when the first input position was not above 0,
\* and the last position is 1 when the last input position was not above 0.
C6_EndpointsForcedWhenUnfixed ==
    (normRun >= 1 /\ Len(pre) >= 2) =>
        /\ Sorted(ColorsOf(cmap))
        /\ InUnit(ColorsOf(cmap))
        /\ HasUnspecified(pre) =>
              /\ ~Lt(Zero, pre[1].Step) => Eq(ColorsOf(cmap)[1].Step, Zero)
              /\ ~Lt(Zero, pre[Len(pre)].Step)
                    => Eq(ColorsOf(cmap)[Len(pre)].Step, One)

\* Three stops, the ends unspecified and the middle one fixed at 1/4, were
\* normalized to 0, 1/4, 1.
C6_Witness ==
    /\ normRun = 1
    /\ Len(pre) = 3
    /\ Eq(pre[1].Step, Zero) /\ pre[2].Step = Rat(1, 4) /\ Eq(pre[3].Step, Zero)
    /\ ColorsOf(cmap)[1].Step = Zero
    /\ ColorsOf(cmap)[2].Step = Rat(1, 4)
    /\ ColorsOf(cmap)[3].Step = One

\* C7: a second Normalize in a row leaves the stops as the first left them.
C7_NormalizeIdempotent ==
    normRun >= 2 => ColorsOf(cmap) = pre

\* C10: Normalize of a single stop whose position is 0 leaves a single stop
\* at position 0.
C10_SingleStopAtZero ==
    (normRun >= 1 /\ Len(pre) = 1 /\ Eq(pre[1].Step, Zero)) =>
        /\ Len(ColorsOf(cmap)) = 1
        /\ Eq(ColorsOf(cmap)[1].Step, Zero)

(***************************************************************************)
(* Properties of Interpolate and Get (specification PaletteSpec).          *)
(***************************************************************************)
\* C8: on a normalized, non-empty gradient Interpolate(t) is the first
\* stop's colour for t at or below the first position and the last stop's
\* colour for t at or above the last position.  (Stated for a single stop
\* and for gradients whose first position is below the last: were they
\* equal, one t would have to yield both colours.)
C8_ClampsToEndStops ==
    (/\ result.called
     /\ result.normalized
     /\ Len(result.stops) >= 1
     /\ \/ Len(result.stops) = 1
        \/ Lt(result.stops[1].Step, result.stops[Len(result.stops)].Step)) =>
        LET S == result.stops
        IN  /\ Le(result.t, S[1].Step) => result.color = ToRGBA(S[1].Color)
            /\ Le(S[Len(S)].Step, result.t)
                  => result.color = ToRGBA(S[Len(S)].Color)

\* C9: the stops of every registered palette stay as they were registered.
C9_TemplateUnchanged ==
    \A i \in 1..Len(ColorPalettes) : arrays[ColorPalettes[i].Colors] = template[i]

=============================================================================
